---- MODULE Spec2Model ----
(***************************************************************************)
(* isomagic: rendering of a voxel model (dot_vox) to 2-D rasters, one per  *)
(* (side, view) pair.  The module models src/src/main.rs and               *)
(* src/src/enums.rs: the palette lookup, the per-side closures of every    *)
(* view, create_image (in-place unstable sort + canvas sizing), the stamp  *)
(* loops, and the render_all driver.                                       *)
(***************************************************************************)
EXTENDS Integers, Sequences, FiniteSets, TLC

\* Bounds of the explored inputs.
MaxCells == 4   \* grids of at most MaxCells cells hold up to MaxVoxels voxels
MaxVoxels == 3
MaxSmallVoxels == 2  \* ... and up to MaxSmallVoxels voxels in SpecSmall
MaxDim == 2     \* grids of up to MaxDim x MaxDim x MaxDim cells hold two voxels
MaxModels == 2  \* models in the file the driver renders

\* u8::MAX, the largest `subtract` (and channel value)
U8Max == 255

\* Option::None of a Side, a View, a panic
None == "None"

(***************************************************************************)
(* enums.rs                                                                *)
(***************************************************************************)
SideAll == <<"Top", "Front", "Left", "Right", "Back", "Bottom">>

ViewAll == <<"Face", "FourtyFive", "FourtyFiveIso", "TwentyTwoPointFive", "TwentyTwoPointFiveIso">>

Side == {SideAll[k] : k \in 1..Len(SideAll)}

View == {ViewAll[k] : k \in 1..Len(ViewAll)}

side_to_str(side) ==
    CASE side = "Top"    -> "top"
      [] side = "Front"  -> "front"
      [] side = "Left"   -> "left"
      [] side = "Right"  -> "right"
      [] side = "Back"   -> "back"
      [] side = "Bottom" -> "bottom"

view_to_str(view) ==
    CASE view = "Face"                  -> "face"
      [] view = "FourtyFive"            -> "45"
      [] view = "FourtyFiveIso"         -> "45_iso"
      [] view = "TwentyTwoPointFive"    -> "22.5"
      [] view = "TwentyTwoPointFiveIso" -> "22.5_iso"

(***************************************************************************)
(* The palette: packed 32-bit RGBA words.  A u32 is kept as its two 16-bit *)
(* halves so that words with alpha >= 0x80 stay inside TLC's integers.     *)
(***************************************************************************)
U32(hi, lo) == [hi |-> hi, lo |-> lo]

\* colour >> n for the shift amounts the program uses
shr(colour, n) ==
    CASE n = 0  -> colour
      [] n = 8  -> U32(colour.hi \div 256, (colour.hi % 256) * 256 + colour.lo \div 256)
      [] n = 16 -> U32(0, colour.hi)
      [] n = 24 -> U32(0, colour.hi \div 256)

\* (word % 256) as u8
mod256(colour) == colour.lo % 256

\* u8 subtraction that wraps instead of saturating
wrapping_sub(a, b) == (a - b) % 256

saturating_sub(a, b) == IF a >= b THEN a - b ELSE 0

\* 0xFF0000FF (opaque red), 0x80140A1E, 0xFF0FC828
Palette == << U32(65280, 255), U32(32788, 2590), U32(65295, 51240) >>

Transparent == <<0, 0, 0, 0>>

\* self.palette[index as usize - 1] panics: the index underflows or is out of range
colour_panics(pal, index) == index - 1 < 0 \/ index - 1 >= Len(pal)

\* ModelRenderer::colour, for an index that does not panic; Rgba as <<r, g, b, a>>
colour(pal, index, subtract) ==
    LET c == pal[(index - 1) + 1]
        r == mod256(shr(c, 0))
        g == mod256(shr(c, 8))
        b == mod256(shr(c, 16))
        a == mod256(shr(c, 24))
    IN  << saturating_sub(r, subtract),
           saturating_sub(g, subtract),
           saturating_sub(b, subtract),
           a >>

(***************************************************************************)
(* Size                                                                    *)
(***************************************************************************)
invert_x(size, voxel) == size.x - voxel.x

invert_y(size, voxel) == size.y - voxel.y

\* a mirror that counts from size - 1
invert_z_from_last(size, voxel) == size.z - voxel.z - 1

invert_z(size, voxel) == size.z - voxel.z

(***************************************************************************)
(* The closures (sort, map_x, map_y) each render_* hands to its stamp      *)
(* loop, per side.  "unreachable" is the unreachable!() arm.               *)
(***************************************************************************)
Fns(s, x, y) == [sort |-> s, x |-> x, y |-> y]

\* the unreachable!() arm: no closures, the process panics
unreachable == [sort |-> -1, x |-> -1, y |-> -1]

\* render_face whose Front depth key ignores the voxel
render_face_flat_key(side, size, voxel) ==
    CASE side = "Top"    -> Fns(voxel.z, voxel.x, invert_y(size, voxel))
      [] side = "Front"  -> Fns(0, voxel.x, invert_z(size, voxel))
      [] side = "Left"   -> Fns(invert_x(size, voxel), invert_y(size, voxel), invert_z(size, voxel))
      [] side = "Right"  -> Fns(voxel.x, voxel.y, invert_z(size, voxel))
      [] side = "Back"   -> Fns(voxel.y, invert_x(size, voxel), invert_z(size, voxel))
      [] side = "Bottom" -> Fns(invert_z(size, voxel), voxel.x, voxel.y)

render_face(side, size, voxel) ==
    CASE side = "Top"    -> Fns(voxel.z, voxel.x, invert_y(size, voxel))
      [] side = "Front"  -> Fns(invert_y(size, voxel), voxel.x, invert_z(size, voxel))
      [] side = "Left"   -> Fns(invert_x(size, voxel), invert_y(size, voxel), invert_z(size, voxel))
      [] side = "Right"  -> Fns(voxel.x, voxel.y, invert_z(size, voxel))
      [] side = "Back"   -> Fns(voxel.y, invert_x(size, voxel), invert_z(size, voxel))
      [] side = "Bottom" -> Fns(invert_z(size, voxel), voxel.x, voxel.y)

render_45(side, size, voxel) ==
    CASE side = "Front" -> Fns(voxel.z + invert_y(size, voxel),
                               voxel.x,
                               invert_z(size, voxel) + invert_y(size, voxel))
      [] side = "Left"  -> Fns(voxel.z + invert_x(size, voxel),
                               invert_y(size, voxel),
                               invert_z(size, voxel) + invert_x(size, voxel))
      [] side = "Right" -> Fns(voxel.z + voxel.x,
                               voxel.y,
                               invert_z(size, voxel) + voxel.x)
      [] side = "Back"  -> Fns(voxel.z + voxel.y,
                               invert_x(size, voxel),
                               invert_z(size, voxel) + voxel.y)
      [] OTHER -> unreachable

render_22_5(side, size, voxel) ==
    CASE side = "Front" -> Fns(voxel.z + invert_y(size, voxel),
                               voxel.x * 2,
                               invert_z(size, voxel) * 2 + invert_y(size, voxel))
      [] side = "Left"  -> Fns(voxel.z + invert_x(size, voxel),
                               invert_y(size, voxel) * 2,
                               invert_z(size, voxel) * 2 + invert_x(size, voxel))
      [] side = "Right" -> Fns(voxel.z + voxel.x,
                               voxel.y * 2,
                               invert_z(size, voxel) * 2 + voxel.x)
      [] side = "Back"  -> Fns(voxel.z + voxel.y,
                               invert_x(size, voxel) * 2,
                               invert_z(size, voxel) * 2 + voxel.y)
      [] OTHER -> unreachable

render_45_iso(side, size, voxel) ==
    CASE side = "Front" -> Fns(voxel.z + invert_x(size, voxel) + invert_y(size, voxel),
                               voxel.x + invert_y(size, voxel),
                               invert_z(size, voxel) + invert_x(size, voxel) + invert_y(size, voxel))
      [] side = "Left"  -> Fns(voxel.z + invert_x(size, voxel) + voxel.y,
                               invert_x(size, voxel) + invert_y(size, voxel),
                               invert_z(size, voxel) + invert_x(size, voxel) + voxel.y)
      [] side = "Right" -> Fns(voxel.z + voxel.x + invert_y(size, voxel),
                               voxel.x + voxel.y,
                               invert_z(size, voxel) + voxel.x + invert_y(size, voxel))
      [] side = "Back"  -> Fns(voxel.z + voxel.x + voxel.y,
                               invert_x(size, voxel) + voxel.y,
                               invert_z(size, voxel) + voxel.x + voxel.y)
      [] OTHER -> unreachable

\* render_22_5_iso with the factor 3 on the depth key's invert_y (Front,
\* Left: invert_x, ...) instead of on map_y's invert_z
render_22_5_iso_key_tripled(side, size, voxel) ==
    CASE side = "Front" -> Fns(voxel.z + invert_x(size, voxel) + invert_y(size, voxel) * 3,
                               voxel.x * 2 + invert_y(size, voxel) * 2,
                               invert_z(size, voxel) + invert_x(size, voxel) + invert_y(size, voxel))
      [] side = "Left"  -> Fns(voxel.z + invert_x(size, voxel) * 3 + voxel.y,
                               invert_x(size, voxel) * 2 + invert_y(size, voxel) * 2,
                               invert_z(size, voxel) + invert_x(size, voxel) + voxel.y)
      [] side = "Right" -> Fns(voxel.z + voxel.x * 3 + invert_y(size, voxel),
                               voxel.x * 2 + voxel.y * 2,
                               invert_z(size, voxel) + voxel.x + invert_y(size, voxel))
      [] side = "Back"  -> Fns(voxel.z + voxel.x + voxel.y * 3,
                               invert_x(size, voxel) * 2 + voxel.y * 2,
                               invert_z(size, voxel) + voxel.x + voxel.y)
      [] OTHER -> unreachable

\* render_22_5_iso whose Front depth key leaves out invert_y
render_22_5_iso_flat_key(side, size, voxel) ==
    CASE side = "Front" -> Fns(voxel.z + invert_x(size, voxel),
                               voxel.x * 2 + invert_y(size, voxel) * 2,
                               invert_z(size, voxel) * 3 + invert_x(size, voxel) + invert_y(size, voxel))
      [] side = "Left"  -> Fns(voxel.z + invert_x(size, voxel) + voxel.y,
                               invert_x(size, voxel) * 2 + invert_y(size, voxel) * 2,
                               invert_z(size, voxel) * 3 + invert_x(size, voxel) + voxel.y)
      [] side = "Right" -> Fns(voxel.z + voxel.x + invert_y(size, voxel),
                               voxel.x * 2 + voxel.y * 2,
                               invert_z(size, voxel) * 3 + voxel.x + invert_y(size, voxel))
      [] side = "Back"  -> Fns(voxel.z + voxel.x + voxel.y,
                               invert_x(size, voxel) * 2 + voxel.y * 2,
                               invert_z(size, voxel) * 3 + voxel.x + voxel.y)
      [] OTHER -> unreachable

render_22_5_iso(side, size, voxel) ==
    CASE side = "Front" -> Fns(voxel.z + invert_x(size, voxel) + invert_y(size, voxel),
                               voxel.x * 2 + invert_y(size, voxel) * 2,
                               invert_z(size, voxel) * 3 + invert_x(size, voxel) + invert_y(size, voxel))
      [] side = "Left"  -> Fns(voxel.z + invert_x(size, voxel) + voxel.y,
                               invert_x(size, voxel) * 2 + invert_y(size, voxel) * 2,
                               invert_z(size, voxel) * 3 + invert_x(size, voxel) + voxel.y)
      [] side = "Right" -> Fns(voxel.z + voxel.x + invert_y(size, voxel),
                               voxel.x * 2 + voxel.y * 2,
                               invert_z(size, voxel) * 3 + voxel.x + invert_y(size, voxel))
      [] side = "Back"  -> Fns(voxel.z + voxel.x + voxel.y,
                               invert_x(size, voxel) * 2 + voxel.y * 2,
                               invert_z(size, voxel) * 3 + voxel.x + voxel.y)
      [] OTHER -> unreachable

(***************************************************************************)
(* The put_pixel calls of each stamp loop, in program order, as            *)
(* <<dx, dy, subtract>> relative to (map_x(voxel), map_y(voxel)).          *)
(***************************************************************************)
render_face_closure == << <<0, 0, 0>> >>

render_45_closure == << <<0, 1, 30>>, <<0, 0, 0>> >>

render_22_5_closure ==
    << <<0, 0, 0>>, <<1, 0, 0>>,
       <<0, 1, 30>>, <<1, 1, 30>>,
       <<0, 2, 30>>, <<1, 2, 30>> >>

\* the 45 iso stamp with the two lower shades exchanged
render_45_iso_closure_swapped ==
    << <<0, 0, 0>>, <<1, 0, 0>>, <<0, 1, 15>>, <<1, 1, 30>> >>

render_45_iso_closure ==
    << <<0, 0, 0>>, <<1, 0, 0>>, <<0, 1, 30>>, <<1, 1, 15>> >>

render_22_5_iso_closure ==
    << <<0, 0, 0>>, <<1, 0, 0>>, <<2, 0, 0>>, <<3, 0, 0>>,
       <<0, 1, 30>>, <<1, 1, 30>>, <<2, 1, 15>>, <<3, 1, 15>>,
       <<0, 2, 30>>, <<1, 2, 30>>, <<2, 2, 15>>, <<3, 2, 15>>,
       <<0, 3, 30>>, <<1, 3, 30>>, <<2, 3, 15>>, <<3, 3, 15>> >>

\* Renderer::render with TwentyTwoPointFiveIso padded like TwentyTwoPointFive
render_short_padding(view) ==
    CASE view = "Face"                  -> [x_padding |-> 0, y_padding |-> 0, stamp |-> render_face_closure]
      [] view = "FourtyFive"            -> [x_padding |-> 0, y_padding |-> 1, stamp |-> render_45_closure]
      [] view = "FourtyFiveIso"         -> [x_padding |-> 1, y_padding |-> 1, stamp |-> render_45_iso_closure]
      [] view = "TwentyTwoPointFive"    -> [x_padding |-> 1, y_padding |-> 2, stamp |-> render_22_5_closure]
      [] view = "TwentyTwoPointFiveIso" -> [x_padding |-> 1, y_padding |-> 2, stamp |-> render_22_5_iso_closure]

\* Renderer::render: the view's (x_padding, y_padding), closures and stamp
render(view) ==
    CASE view = "Face"                  -> [x_padding |-> 0, y_padding |-> 0, stamp |-> render_face_closure]
      [] view = "FourtyFive"            -> [x_padding |-> 0, y_padding |-> 1, stamp |-> render_45_closure]
      [] view = "FourtyFiveIso"         -> [x_padding |-> 1, y_padding |-> 1, stamp |-> render_45_iso_closure]
      [] view = "TwentyTwoPointFive"    -> [x_padding |-> 1, y_padding |-> 2, stamp |-> render_22_5_closure]
      [] view = "TwentyTwoPointFiveIso" -> [x_padding |-> 3, y_padding |-> 3, stamp |-> render_22_5_iso_closure]

closures(view, side, size, voxel) ==
    CASE view = "Face"                  -> render_face(side, size, voxel)
      [] view = "FourtyFive"            -> render_45(side, size, voxel)
      [] view = "FourtyFiveIso"         -> render_45_iso(side, size, voxel)
      [] view = "TwentyTwoPointFive"    -> render_22_5(side, size, voxel)
      [] view = "TwentyTwoPointFiveIso" -> render_22_5_iso(side, size, voxel)

(***************************************************************************)
(* State                                                                   *)
(***************************************************************************)
VARIABLES
    vox,        \* Renderer.vox: [models: Seq([size, voxels]), palette]
    image,      \* the RgbaImage the last render_* built: [width, height, pix]
    owner,      \* history: for each pixel, the voxel whose stamp wrote it last
    writes,     \* history: the coordinates handed to put_pixel by the last render
    last,       \* history: the [model, side, view] of the last render
    panicked,   \* None, or the panic that aborted the process
    options,    \* Options: [model, side, view]; -1 / None stand for "all"
    pos,        \* render_all: <<model, side, view>> positions of its three loops
    pc,         \* render_all: "loop", "done"; "idle" outside the driver
    files,      \* the output files written so far
    rendered,   \* history: the combinations handed to Renderer::render, in order
    result,     \* what render_all returned: None, "Ok", "Err"
    call,       \* a colour(index, subtract) call: its arguments
    ret         \* ... and the Rgba it returned

vars == <<vox, image, owner, writes, last, panicked, options, pos, pc, files,
          rendered, result, call, ret>>

engineVars == <<vox, image, owner, writes, last, panicked>>

driverVars == <<options, pos, pc, files, rendered, result>>

colourVars == <<call, ret>>

NoImage == [width |-> 0, height |-> 0, pix |-> << >>]

NoRender == [model |-> -1, side |-> None, view |-> None]

NoOptions == [model |-> -1, side |-> None, view |-> None]

NoCall == [index |-> -1, subtract |-> -1]

NoRgba == <<-1, -1, -1, -1>>

(***************************************************************************)
(* Helpers on sequences and sets                                           *)
(***************************************************************************)
Range(seq) == {seq[k] : k \in 1..Len(seq)}

MaxOf(set) == CHOOSE m \in set : \A n \in set : n <= m

\* iter().map(f).max().unwrap_or(0)
max_or_0(set) == IF set = {} THEN 0 ELSE MaxOf(set)

Injections(n) == {f \in [1..n -> 1..n] : \A a, b \in 1..n : f[a] = f[b] => a = b}

Permutations_of(seq) == {[k \in 1..Len(seq) |-> seq[f[k]]] : f \in Injections(Len(seq))}

\* a sort that leaves the list as it is
sort_unstable_by_key_unsorted(voxels, key) == {voxels}

\* slice::sort_unstable_by_key: some ascending arrangement; equal keys in any order
sort_unstable_by_key(voxels, key) ==
    {s \in Permutations_of(voxels) :
        \A k \in 1..(Len(s) - 1) : key[s[k]] <= key[s[k + 1]]}

(***************************************************************************)
(* ImageBuffer                                                             *)
(***************************************************************************)
\* ImageBuffer::new(width, height): every pixel zeroed
ImageBuffer_new(width, height) ==
    [width |-> width, height |-> height,
     pix |-> [p \in (0..(width - 1)) \X (0..(height - 1)) |-> Transparent]]

\* a canvas without the "+ 1" of the width
create_image_narrow(voxels, fns, x_padding, y_padding) ==
    LET width  == max_or_0({fns[v].x : v \in Range(voxels)}) + x_padding
        height == max_or_0({fns[v].y : v \in Range(voxels)}) + y_padding + 1
    IN  ImageBuffer_new(width, height)

\* the image create_image returns for the (already sorted) voxels
create_image(voxels, fns, x_padding, y_padding) ==
    LET width  == max_or_0({fns[v].x : v \in Range(voxels)}) + x_padding + 1
        height == max_or_0({fns[v].y : v \in Range(voxels)}) + y_padding + 1
    IN  ImageBuffer_new(width, height)

\* put_pixel's bounds check
in_bounds(img, x, y) == x >= 0 /\ x < img.width /\ y >= 0 /\ y < img.height

\* ImageBuffer::put_pixel on a pixel found in bounds
put_pixel(img, x, y, pixel) == [img EXCEPT !.pix[<<x, y>>] = pixel]

(***************************************************************************)
(* The stamp loop: for voxel in &self.model.voxels { put_pixel ... }.      *)
(* st = [image, owner, writes, panicked]; a panic ends the loop.           *)
(***************************************************************************)
\* one put_pixel call of a voxel's stamp: op = <<dx, dy, subtract>>
stamp_step(st, pal, voxel, f, op) ==
    LET x == f.x + op[1]
        y == f.y + op[2]
    IN  IF colour_panics(pal, voxel.i) THEN [st EXCEPT !.panicked = "palette"]
        ELSE IF ~in_bounds(st.image, x, y)
             THEN [st EXCEPT !.panicked = "put_pixel",
                             !.writes = @ \cup {<<x, y>>}]
        ELSE [image    |-> put_pixel(st.image, x, y, colour(pal, voxel.i, op[3])),
              owner    |-> [st.owner EXCEPT ![<<x, y>>] = voxel],
              writes   |-> st.writes \cup {<<x, y>>},
              panicked |-> None]

\* the put_pixel calls j.. of one voxel's stamp
RECURSIVE stamp_voxel(_, _, _, _, _, _)
stamp_voxel(st, pal, voxel, f, stamp, j) ==
    IF j > Len(stamp) \/ st.panicked # None THEN st
    ELSE LET next == stamp_step(st, pal, voxel, f, stamp[j])
         IN  IF next.panicked # None THEN next
             ELSE stamp_voxel(next, pal, voxel, f, stamp, j + 1)

\* the loop body for the voxels k.. of the sorted list
RECURSIVE stamp_loop(_, _, _, _, _, _)
stamp_loop(st, pal, voxels, fns, stamp, k) ==
    IF k > Len(voxels) \/ st.panicked # None THEN st
    ELSE LET next == stamp_voxel(st, pal, voxels[k], fns[voxels[k]], stamp, 1)
         IN  IF next.panicked # None THEN next
             ELSE stamp_loop(next, pal, voxels, fns, stamp, k + 1)

NoVoxel == [x |-> -1, y |-> -1, z |-> -1, i |-> 0]

\* what one render_<view>_closure leaves behind, given the order `sorted`
\* the unstable sort of create_image produced
paint(pal, sorted, fns, view) ==
    LET r   == render(view)
        img == create_image(sorted, fns, r.x_padding, r.y_padding)
        st0 == [image |-> img,
                owner |-> [p \in DOMAIN img.pix |-> NoVoxel],
                writes |-> {},
                panicked |-> None]
    IN  stamp_loop(st0, pal, sorted, fns, r.stamp, 1)

closures_of(model, side, view) ==
    [v \in Range(model.voxels) |-> closures(view, side, model.size, v)]

sort_key(fns) == [v \in DOMAIN fns |-> fns[v].sort]

\* ModelRenderer::new(self, model, ..).render_<view>(side)
ModelRender(model, side, view) ==
    LET m   == vox.models[model + 1]
        fns == closures_of(m, side, view)
    IN  IF closures(view, side, m.size, NoVoxel) = unreachable
        THEN /\ panicked' = "unreachable"
             /\ last' = [model |-> model, side |-> side, view |-> view]
             /\ UNCHANGED <<vox, image, owner, writes>>
        ELSE \E sorted \in sort_unstable_by_key(m.voxels, sort_key(fns)) :
             \E st \in {paint(vox.palette, sorted, fns, view)} :
                /\ vox' = [vox EXCEPT !.models[model + 1].voxels = sorted]
                /\ image' = st.image
                /\ owner' = st.owner
                /\ writes' = st.writes
                /\ panicked' = st.panicked
                /\ last' = [model |-> model, side |-> side, view |-> view]

(***************************************************************************)
(* Inputs: the models a .vox file can hold, within the bounds.  A model    *)
(* has at most one voxel per grid cell, every voxel inside the grid; the   *)
(* voxel list is in any order.  The k-th voxel of the file uses palette    *)
(* entry ((k - 1) % Len(Palette)) + 1.                                     *)
(***************************************************************************)
Cells(size) == [x : 0..(size.x - 1), y : 0..(size.y - 1), z : 0..(size.z - 1)]

CellLists(size, n) ==
    {s \in [1..n -> Cells(size)] : \A a, b \in 1..n : s[a] = s[b] => a = b}

Voxel(c, k) == [x |-> c.x, y |-> c.y, z |-> c.z, i |-> ((k - 1) % Len(Palette)) + 1]

ModelsOf(size, n) ==
    {[size |-> size, voxels |-> [k \in 1..n |-> Voxel(s[k], k)]] : s \in CellLists(size, n)}

FlatSizes ==
    {sz \in [x : 1..MaxCells, y : 1..MaxCells, z : 1..MaxCells] : sz.x * sz.y * sz.z <= MaxCells}

CubeSizes == [x : 1..MaxDim, y : 1..MaxDim, z : 1..MaxDim]

\* up to `most` voxels in a grid of at most MaxCells cells
FlatModels(most) == UNION {UNION {ModelsOf(sz, n) : n \in 0..most} : sz \in FlatSizes}

\* two voxels anywhere in a grid of up to MaxDim x MaxDim x MaxDim cells
PairModels == UNION {ModelsOf(sz, 2) : sz \in CubeSizes}

Models == FlatModels(MaxVoxels) \cup PairModels

Lateral == {"Front", "Left", "Right", "Back"}

(***************************************************************************)
(* Specification of the projection and compositing engine: a run that      *)
(* loads one model and renders one (side, view) of it.  The voxel list is  *)
(* loaded in any order, which covers every order an earlier render of the  *)
(* same run may have left behind.  SpecSmall is the same engine on the     *)
(* models of FlatModels(MaxSmallVoxels) alone.                             *)
(***************************************************************************)
InitRest ==
    /\ image = NoImage /\ owner = << >> /\ writes = {} /\ last = NoRender
    /\ panicked = None
    /\ options = NoOptions /\ pos = <<0, 0, 0>> /\ files = {}
    /\ rendered = << >> /\ result = None
    /\ call = NoCall /\ ret = NoRgba

Init ==
    /\ \E m \in Models : vox = [models |-> <<m>>, palette |-> Palette]
    /\ pc = "idle"
    /\ InitRest

InitSmall ==
    /\ \E m \in FlatModels(MaxSmallVoxels) : vox = [models |-> <<m>>, palette |-> Palette]
    /\ pc = "idle"
    /\ InitRest

RenderFace(side) ==
    /\ pc = "idle" /\ panicked = None /\ last = NoRender
    /\ ModelRender(0, side, "Face")
    /\ UNCHANGED <<driverVars, colourVars>>

Render45(side) ==
    /\ pc = "idle" /\ panicked = None /\ last = NoRender
    /\ ModelRender(0, side, "FourtyFive")
    /\ UNCHANGED <<driverVars, colourVars>>

Render45Iso(side) ==
    /\ pc = "idle" /\ panicked = None /\ last = NoRender
    /\ ModelRender(0, side, "FourtyFiveIso")
    /\ UNCHANGED <<driverVars, colourVars>>

Render22_5(side) ==
    /\ pc = "idle" /\ panicked = None /\ last = NoRender
    /\ ModelRender(0, side, "TwentyTwoPointFive")
    /\ UNCHANGED <<driverVars, colourVars>>

Render22_5Iso(side) ==
    /\ pc = "idle" /\ panicked = None /\ last = NoRender
    /\ ModelRender(0, side, "TwentyTwoPointFiveIso")
    /\ UNCHANGED <<driverVars, colourVars>>

Next ==
    \/ \E side \in Side : RenderFace(side)
    \/ \E side \in Lateral : Render45(side)
    \/ \E side \in Lateral : Render45Iso(side)
    \/ \E side \in Lateral : Render22_5(side)
    \/ \E side \in Lateral : Render22_5Iso(side)

Spec == Init /\ [][Next]_vars

SpecSmall == InitSmall /\ [][Next]_vars

(***************************************************************************)
(* Specification of the driver: Renderer::render_all over a file of one    *)
(* to MaxModels models, with every selection of the model, side and view   *)
(* options.  One step is one iteration of the innermost loop.              *)
(***************************************************************************)
\* a 1x1x1 model with its one voxel, and a 1x2x1 model with two
DriverModels ==
    { [size |-> [x |-> 1, y |-> 1, z |-> 1],
       voxels |-> << [x |-> 0, y |-> 0, z |-> 0, i |-> 1] >>],
      [size |-> [x |-> 1, y |-> 2, z |-> 1],
       voxels |-> << [x |-> 0, y |-> 0, z |-> 0, i |-> 2],
                     [x |-> 0, y |-> 1, z |-> 0, i |-> 3] >>] }

\* a guard that lets every pair through
valid_always(side, view) == TRUE

\* render_all's guard
valid(side, view) == view = "Face" \/ (side # "Top" /\ side # "Bottom")

\* the three vectors render_all loops over
models_of(opts) ==
    IF opts.model = -1 THEN [k \in 1..Len(vox.models) |-> k - 1] ELSE << opts.model >>

sides_of(opts) == IF opts.side = None THEN SideAll ELSE << opts.side >>

views_of(opts) == IF opts.view = None THEN ViewAll ELSE << opts.view >>

\* the position of the loops after the iteration at p
advance(p) ==
    IF p[3] < Len(views_of(options)) THEN <<p[1], p[2], p[3] + 1>>
    ELSE IF p[2] < Len(sides_of(options)) THEN <<p[1], p[2] + 1, 1>>
    ELSE <<p[1] + 1, 1, 1>>

\* format!("{}_{}_{}.png", side.to_str(), view.to_str(), model)
file_name(model, side, view) == <<side_to_str(side), view_to_str(view), model, "png">>

InitDriver ==
    /\ \E n \in 1..MaxModels : \E ms \in [1..n -> DriverModels] :
          vox = [models |-> ms, palette |-> Palette]
    /\ \E m \in {-1} \cup (0..(Len(vox.models) - 1)) :
       \E s \in {None} \cup Side :
       \E v \in {None} \cup View :
          options = [model |-> m, side |-> s, view |-> v]
    /\ pc = "loop" /\ pos = <<1, 1, 1>>
    /\ image = NoImage /\ owner = << >> /\ writes = {} /\ last = NoRender
    /\ panicked = None /\ files = {} /\ rendered = << >> /\ result = None
    /\ call = NoCall /\ ret = NoRgba

\* the loop body when the guard holds: Renderer::render, then the save
LoopRender ==
    /\ pc = "loop" /\ panicked = None
    /\ pos[1] <= Len(models_of(options))
    /\ LET model == models_of(options)[pos[1]]
           side  == sides_of(options)[pos[2]]
           view  == views_of(options)[pos[3]]
       IN  /\ valid(side, view)
           /\ ModelRender(model, side, view)
           /\ rendered' = Append(rendered, <<model, side, view>>)
           /\ IF panicked' # None
              THEN /\ pc' = "done"
                   /\ UNCHANGED <<files, pos, result>>
              ELSE \/ /\ files' = files \cup {file_name(model, side, view)}
                      /\ pos' = advance(pos)
                      /\ UNCHANGED <<pc, result>>
                   \/ /\ result' = "Err"   \* create_dir_all or save failed
                      /\ pc' = "done"
                      /\ UNCHANGED <<files, pos>>
    /\ UNCHANGED <<options, colourVars>>

\* the loop body when the guard fails: nothing happens
LoopSkip ==
    /\ pc = "loop" /\ panicked = None
    /\ pos[1] <= Len(models_of(options))
    /\ ~valid(sides_of(options)[pos[2]], views_of(options)[pos[3]])
    /\ pos' = advance(pos)
    /\ UNCHANGED <<engineVars, options, pc, files, rendered, result, colourVars>>

\* the loops are over: Ok(())
LoopExit ==
    /\ pc = "loop" /\ panicked = None
    /\ pos[1] > Len(models_of(options))
    /\ pc' = "done"
    /\ result' = "Ok"
    /\ UNCHANGED <<engineVars, options, pos, files, rendered, colourVars>>

NextDriver == LoopRender \/ LoopSkip \/ LoopExit

SpecDriver == InitDriver /\ [][NextDriver]_vars

(***************************************************************************)
(* Specification of the palette lookup: one call of colour(index,          *)
(* subtract) on the palette, for every u8 subtract and every index up to   *)
(* the palette's length (index 0 included: it panics).                     *)
(***************************************************************************)
InitColour ==
    /\ vox = [models |-> << >>, palette |-> Palette]
    /\ \E i \in 0..Len(Palette) : \E d \in 0..U8Max : call = [index |-> i, subtract |-> d]
    /\ ret = NoRgba
    /\ pc = "colour"
    /\ image = NoImage /\ owner = << >> /\ writes = {} /\ last = NoRender
    /\ panicked = None
    /\ options = NoOptions /\ pos = <<0, 0, 0>> /\ files = {}
    /\ rendered = << >> /\ result = None

ColourReturn ==
    /\ pc = "colour"
    /\ ~colour_panics(vox.palette, call.index)
    /\ ret' = colour(vox.palette, call.index, call.subtract)
    /\ pc' = "returned"
    /\ UNCHANGED <<engineVars, options, pos, files, rendered, result, call>>

ColourPanic ==
    /\ pc = "colour"
    /\ colour_panics(vox.palette, call.index)
    /\ panicked' = "palette"
    /\ pc' = "returned"
    /\ UNCHANGED <<vox, image, owner, writes, last, options, pos, files,
                   rendered, result, call, ret>>

NextColour == ColourReturn \/ ColourPanic

SpecColour == InitColour /\ [][NextColour]_vars

(***************************************************************************)
(* Properties.  After a render, LastModel is the model rendered (its       *)
(* voxels in draw order), F(v) the closures of the rendered (side, view).  *)
(***************************************************************************)
Rendered == last # NoRender /\ panicked = None

LastModel == vox.models[last.model + 1]

F(v) == closures(last.view, last.side, LastModel.size, v)

LastVoxels == Range(LastModel.voxels)

\* the pixels the stamp of voxel v is put on
Footprint(v) ==
    {<<F(v).x + op[1], F(v).y + op[2]>> : op \in Range(render(last.view).stamp)}

Red == <<255, 0, 0, 255>>

\* C2's table of (x_pad, y_pad)
PadTable(view) ==
    CASE view = "Face"                  -> <<0, 0>>
      [] view = "FourtyFive"            -> <<0, 1>>
      [] view = "FourtyFiveIso"         -> <<1, 1>>
      [] view = "TwentyTwoPointFive"    -> <<1, 2>>
      [] view = "TwentyTwoPointFiveIso" -> <<3, 3>>

\* C2: after every render the canvas is exactly max(screen_x) + x_pad + 1
\* wide and max(screen_y) + y_pad + 1 high, the maxima over the model's
\* voxels (0 for a model without voxels), with the padding of PadTable.
C2_CanvasSize ==
    last # NoRender =>
        /\ image.width  = max_or_0({F(v).x : v \in LastVoxels}) + PadTable(last.view)[1] + 1
        /\ image.height = max_or_0({F(v).y : v \in LastVoxels}) + PadTable(last.view)[2] + 1
        /\ DOMAIN image.pix = (0..(image.width - 1)) \X (0..(image.height - 1))

C2_Witness ==
    /\ Rendered
    /\ last.view = "TwentyTwoPointFive" /\ last.side = "Left"
    /\ Len(LastModel.voxels) = 2
    /\ image.width = 6 /\ image.height = 9

\* C3: every coordinate a render hands to put_pixel lies inside the canvas,
\* no stamp reaches further than its view's padding, no render panics, and
\* no size - coordinate mirror goes below zero.
C3_NoClipping ==
    /\ \A m \in Range(vox.models) : \A v \in Range(m.voxels) :
          invert_x(m.size, v) >= 0 /\ invert_y(m.size, v) >= 0 /\ invert_z(m.size, v) >= 0
    /\ last # NoRender =>
          /\ panicked = None
          /\ \A p \in writes : p[1] >= 0 /\ p[1] < image.width /\ p[2] >= 0 /\ p[2] < image.height
          /\ \A v \in LastVoxels : Footprint(v) \subseteq writes
          /\ \A op \in Range(render(last.view).stamp) :
                op[1] <= PadTable(last.view)[1] /\ op[2] <= PadTable(last.view)[2]

\* the bottom-right corner of the canvas is written by a 4x4 stamp
C3_Witness ==
    /\ Rendered
    /\ last.view = "TwentyTwoPointFiveIso"
    /\ Len(LastModel.voxels) = 2
    /\ <<image.width - 1, image.height - 1>> \in writes
    /\ <<image.width - 4, image.height - 4>> \in writes

\* C1: when two voxels a, b of the rendered model have the same screen pixel
\* and b has the larger depth key, the pixel is not left with a's colour:
\* the stamp that wrote it last belongs to a voxel whose key is at least
\* b's, the pixel holds that voxel's colour, and it is b's own (undarkened)
\* colour whenever no third voxel's stamp covers the pixel -- whatever the
\* order of the voxel list before the render.
C1_Painter ==
    Rendered =>
        \A a, b \in LastVoxels :
            (F(a).x = F(b).x /\ F(a).y = F(b).y /\ F(a).sort < F(b).sort) =>
                LET p == <<F(a).x, F(a).y>>
                    w == owner[p]
                IN  /\ w \in LastVoxels /\ w # a
                    /\ F(w).sort >= F(b).sort
                    /\ \E op \in Range(render(last.view).stamp) :
                          /\ p = <<F(w).x + op[1], F(w).y + op[2]>>
                          /\ image.pix[p] = colour(vox.palette, w.i, op[3])
                    /\ (\A c \in LastVoxels \ {a, b} : p \notin Footprint(c)) =>
                          /\ w = b
                          /\ image.pix[p] = colour(vox.palette, b.i, 0)

\* two voxels stacked along the depth axis of Front, the nearer one first in
\* the file (palette entry 1), and its colour is the one on the canvas
C1_Witness ==
    /\ Rendered
    /\ last.side = "Front" /\ last.view = "Face"
    /\ \E a, b \in LastVoxels :
          /\ a.x = b.x /\ a.z = b.z /\ b.y < a.y
          /\ b.i = 1 /\ a.i = 2
          /\ F(a).sort < F(b).sort
          /\ image.pix[<<F(a).x, F(a).y>>] = Red

\* C10: two different voxels of the model whose stamps share a pixel of the
\* canvas have different depth keys.
C10_TieFree ==
    Rendered =>
        \A a, b \in LastVoxels :
            (a # b /\ Footprint(a) \cap Footprint(b) # {}) => F(a).sort # F(b).sort

\* overlapping 4x4 stamps, and a model whose two (disjoint) stamps do tie
C10_Witness ==
    /\ Rendered
    /\ last.view = "TwentyTwoPointFiveIso"
    /\ \E a, b \in LastVoxels :
          /\ a # b
          /\ Footprint(a) \cap Footprint(b) # {}
          /\ a.x # b.x /\ a.y # b.y /\ a.z # b.z

C10_TieWitness ==
    /\ Rendered
    /\ \E a, b \in LastVoxels : a # b /\ F(a).sort = F(b).sort

FootprintTable(view) ==
    CASE view = "Face" ->
            [o \in {<<0, 0>>} |-> 0]
      [] view = "FourtyFive" ->
            [o \in {<<0, 0>>, <<0, 1>>} |-> IF o[2] = 0 THEN 0 ELSE 30]
      [] view = "TwentyTwoPointFive" ->
            [o \in (0..1) \X (0..2) |-> IF o[2] = 0 THEN 0 ELSE 30]
      [] view = "FourtyFiveIso" ->
            [o \in (0..1) \X (0..1) |-> IF o[2] = 0 THEN 0 ELSE IF o[1] = 0 THEN 30 ELSE 15]
      [] view = "TwentyTwoPointFiveIso" ->
            [o \in (0..3) \X (0..3) |-> IF o[2] = 0 THEN 0 ELSE IF o[1] <= 1 THEN 30 ELSE 15]

\* the draw-order positions of the voxels whose table footprint covers p
Covering(p) ==
    {k \in 1..Len(LastModel.voxels) :
        <<p[1] - F(LastModel.voxels[k]).x, p[2] - F(LastModel.voxels[k]).y>>
            \in DOMAIN FootprintTable(last.view)}

\* C8: a render writes exactly the pixels of the voxels' table footprints; a
\* pixel no footprint covers is transparent, and a covered pixel holds the
\* colour of the last voxel in draw order that covers it, darkened by the
\* table's amount for its offset in that voxel's footprint.
C8_Footprint ==
    Rendered =>
        LET tab == FootprintTable(last.view)
        IN  /\ writes = {<<F(v).x + o[1], F(v).y + o[2]>> : v \in LastVoxels, o \in DOMAIN tab}
            /\ \A p \in DOMAIN image.pix :
                  IF Covering(p) = {} THEN image.pix[p] = Transparent
                  ELSE LET v == LastModel.voxels[MaxOf(Covering(p))]
                       IN  image.pix[p] =
                              colour(vox.palette, v.i, tab[<<p[1] - F(v).x, p[2] - F(v).y>>])

\* a 45 iso render in which a pixel is covered by two stamps and one pixel
\* shows palette entry 1 darkened by 15
C8_Witness ==
    /\ Rendered
    /\ last.view = "FourtyFiveIso"
    /\ \E p \in DOMAIN image.pix : Cardinality(Covering(p)) = 2
    /\ \E p \in DOMAIN image.pix : image.pix[p] = <<240, 0, 0, 255>>
    /\ \E p \in DOMAIN image.pix : image.pix[p] = Transparent

\* C9 as the code has it: on a lateral side, TwentyTwoPointFiveIso doubles
\* FourtyFiveIso's screen x, keeps FourtyFiveIso's depth key unchanged, and
\* weights invert_z by 3 in the screen y (not in the depth key); the canvas
\* of the render is sized accordingly.
C9_Iso22_5 ==
    (last # NoRender /\ last.view = "TwentyTwoPointFiveIso") =>
        /\ \A v \in LastVoxels :
              LET f45 == render_45_iso(last.side, LastModel.size, v)
              IN  /\ F(v).x = 2 * f45.x
                  /\ F(v).sort = f45.sort
                  /\ F(v).y = f45.y + 2 * invert_z(LastModel.size, v)
        /\ image.height =
              max_or_0({render_45_iso(last.side, LastModel.size, v).y
                           + 2 * invert_z(LastModel.size, v) : v \in LastVoxels}) + 4

C9_Witness ==
    /\ Rendered
    /\ last.view = "TwentyTwoPointFiveIso" /\ last.side = "Back"
    /\ \E v \in LastVoxels :
          /\ v.z = 0 /\ LastModel.size.z = 2
          /\ F(v).y = render_45_iso(last.side, LastModel.size, v).y + 4

\* the term of the depth axis (x for Left/Right, y for Front/Back) in the
\* FourtyFiveIso depth key
DepthTerm(side, size, v) ==
    CASE side = "Front" -> invert_y(size, v)
      [] side = "Left"  -> invert_x(size, v)
      [] side = "Right" -> v.x
      [] side = "Back"  -> v.y

\* C9 as claimed: the screen y is FourtyFiveIso's and the depth key is
\* FourtyFiveIso's with the depth contribution weighted by 3.
C9_AsClaimed ==
    (last # NoRender /\ last.view = "TwentyTwoPointFiveIso") =>
        \A v \in LastVoxels :
            LET f45 == render_45_iso(last.side, LastModel.size, v)
            IN  /\ F(v).x = 2 * f45.x
                /\ F(v).y = f45.y
                /\ F(v).sort = f45.sort + 2 * DepthTerm(last.side, LastModel.size, v)

\* the model and render of C6: 1x1x1, one voxel at (0,0,0) with palette
\* entry 1 (opaque red), Front / Face
C6_Scenario ==
    /\ last # NoRender /\ last.side = "Front" /\ last.view = "Face"
    /\ LastModel.size = [x |-> 1, y |-> 1, z |-> 1]
    /\ LastModel.voxels = << [x |-> 0, y |-> 0, z |-> 0, i |-> 1] >>
    /\ vox.palette[1] = U32(65280, 255)

\* C6 as the code has it: the canvas is 1 wide and 2 high, (0, 1) is opaque
\* red -- the voxel's (map_x, map_y) -- and (0, 0) is transparent.
C6_OneByTwo ==
    C6_Scenario =>
        /\ panicked = None
        /\ image.width = 1 /\ image.height = 2
        /\ DOMAIN image.pix = {<<0, 0>>, <<0, 1>>}
        /\ \A v \in LastVoxels : <<F(v).x, F(v).y>> = <<0, 1>>
        /\ image.pix[<<0, 1>>] = Red
        /\ image.pix[<<0, 0>>] = Transparent

C6_Witness == C6_Scenario /\ Rendered /\ image.pix[<<0, 1>>] = Red

\* C6 as claimed: a 2x2 canvas with exactly one red pixel, at the voxel's
\* screen position, all others transparent.
C6_AsClaimed ==
    C6_Scenario =>
        /\ image.width = 2 /\ image.height = 2
        /\ \A v \in LastVoxels : image.pix[<<F(v).x, F(v).y>>] = Red
        /\ Cardinality({p \in DOMAIN image.pix : image.pix[p] = Red}) = 1
        /\ \A p \in DOMAIN image.pix : image.pix[p] \in {Red, Transparent}

\* the combinations the options ask for
Requested ==
    {<<m, s, v>> : m \in Range(models_of(options)),
                   s \in Range(sides_of(options)),
                   v \in Range(views_of(options))}

TopBottomOblique(s, v) == s \in {"Top", "Bottom"} /\ v # "Face"

\* C4: render_all never renders Top or Bottom with a view other than Face
\* (no output file, no error, the unreachable!() arms never run), renders no
\* combination twice, and a run that returns Ok has rendered every other
\* requested combination and written its file.
C4_Driver ==
    /\ panicked # "unreachable"
    /\ \A k \in 1..Len(rendered) :
          /\ ~TopBottomOblique(rendered[k][2], rendered[k][3])
          /\ rendered[k] \in Requested
          /\ \A j \in 1..Len(rendered) : rendered[j] = rendered[k] => j = k
    /\ \A f \in files : ~(f[1] \in {"top", "bottom"} /\ f[2] # "face")
    /\ (pc = "done" /\ result = "Ok") =>
          /\ Range(rendered) = {c \in Requested : ~TopBottomOblique(c[2], c[3])}
          /\ files = {<<side_to_str(c[2]), view_to_str(c[3]), c[1], "png">> :
                         c \in {r \in Requested : ~TopBottomOblique(r[2], r[3])}}
          /\ panicked = None

\* everything asked for, two models: 22 renders each
C4_Witness ==
    /\ pc = "done" /\ result = "Ok"
    /\ options = [model |-> -1, side |-> None, view |-> None]
    /\ Len(vox.models) = 2
    /\ Len(rendered) = 44
    /\ Cardinality(files) = 44

\* Top asked for with an oblique view: nothing rendered, Ok
C4_SkipWitness ==
    /\ pc = "done" /\ result = "Ok"
    /\ options.side = "Top" /\ options.view = "FourtyFiveIso"
    /\ rendered = << >> /\ files = {}

\* the palette's entries byte by byte, in the order R, G, B, A
PaletteBytes == << <<255, 0, 0, 255>>, <<30, 10, 20, 128>>, <<40, 200, 15, 255>> >>

Max0(n) == IF n > 0 THEN n ELSE 0

\* C7: colour(i, d) is palette entry i - 1 unpacked to (r, g, b, a) with d
\* taken from r, g and b, never below 0; alpha is unchanged and d = 0 leaves
\* the entry as it is.
C7_Colour ==
    (pc = "returned" /\ call.index >= 1) =>
        LET e == PaletteBytes[call.index]
        IN  /\ panicked = None
            /\ ret = << Max0(e[1] - call.subtract), Max0(e[2] - call.subtract),
                        Max0(e[3] - call.subtract), e[4] >>
            /\ \A k \in 1..4 : ret[k] >= 0 /\ ret[k] <= U8Max
            /\ call.subtract = 0 => ret = e

\* entry 3 darkened by 30: blue saturates at 0, alpha stays 255
C7_Witness ==
    /\ pc = "returned"
    /\ call = [index |-> 3, subtract |-> 30]
    /\ ret = <<10, 170, 0, 255>>

====
